---------------------------- MODULE Spec2Model ----------------------------
(* Huffman tree builder, encoding map, writer and reader of src/src/lib.rs. *)
EXTENDS Integers, Sequences, FiniteSets, TLC

(***************************************************************************)
(* Bounds and input sets                                                   *)
(***************************************************************************)
\* number of add() calls explored by SpecBuilder
MaxPairs == 4
\* number of add_table() calls explored by Spec
MaxTables == 1
\* number of write() calls on one writer
MaxWrites == 2
\* number of read() calls on one reader
MaxReads == MaxWrites + 1
\* longest caller-supplied bit source handed to HuffReader::new
MaxBits == 2

\* symbols a caller may add or write
Symbols == {"a", "b", "c", "d"}
\* symbols and weights drawn by add() in SpecBuilder
AddSymbols == {"a", "b"}
AddWeights == {1, 2, 3}

(***************************************************************************)
(* HuffTree                                                                *)
(***************************************************************************)
new_leaf(value) == [value |-> value]

new_node(left, right) == [left |-> left, right |-> right]

IsLeaf(t) == DOMAIN t = {"value"}

IsNode(t) == DOMAIN t = {"left", "right"}

\* Option::None of build(), and the reader's cursor outside a read() call
None == [none |-> TRUE]

\* an insert that keeps the entry a key already has
MapInsertKeepFirst(map, k, v) ==
    [x \in (DOMAIN map) \cup {k} |-> IF x \in DOMAIN map THEN map[x] ELSE v]

\* HashMap::insert: the later insertion of a key replaces the earlier one
MapInsert(map, k, v) ==
    [x \in (DOMAIN map) \cup {k} |-> IF x = k THEN v ELSE map[x]]

EmptyMap == [x \in {} |-> <<>>]

\* the trail handed to the left child, without its bit
LeftTrailNoPush(trail) == trail

LeftTrail(trail) == Append(trail, FALSE)

\* the trail handed to the right child, with the left child's bit
RightTrailPushFalse(trail) == Append(trail, FALSE)

RightTrail(trail) == Append(trail, TRUE)

RECURSIVE build_map(_, _, _)
build_map(t, trail, map) ==
    IF IsLeaf(t)
    THEN MapInsert(map, t.value, trail)
    ELSE build_map(t.right, RightTrail(trail),
                   build_map(t.left, LeftTrail(trail), map))

encoding_of(t) == build_map(t, <<>>, EmptyMap)

(***************************************************************************)
(* HuffBuilder: sort and binary search                                     *)
(***************************************************************************)
\* a comparator that sorts by ascending weight
SortCmpAscending(a, b) ==
    IF b.weight < a.weight THEN "Greater"
    ELSE IF b.weight > a.weight THEN "Less"
    ELSE "Equal"

\* comparator of the initial sort, |a, b|: descending weight
SortCmp(a, b) ==
    IF b.weight > a.weight THEN "Greater"
    ELSE IF b.weight < a.weight THEN "Less"
    ELSE "Equal"

InsertAt(s, pos, x) ==
    SubSeq(s, 1, pos) \o <<x>> \o SubSeq(s, pos + 1, Len(s))

\* slice::sort_by is a stable sort: an element goes after every earlier
\* element that does not compare Greater than it
RECURSIVE sort_by(_)
sort_by(s) ==
    IF s = <<>> THEN <<>>
    ELSE LET n    == Len(s)
             rest == sort_by(SubSeq(s, 1, n - 1))
             x    == s[n]
             k    == Cardinality({i \in 1..(n - 1) : SortCmp(rest[i], x) # "Greater"})
         IN  InsertAt(rest, k, x)

\* comparator of the binary search, |a|
SearchCmp(new_weight, a) ==
    IF new_weight > a.weight THEN "Greater"
    ELSE IF new_weight < a.weight THEN "Less"
    ELSE "Equal"

\* insertion that ignores the order and appends
SearchPositionsAtEnd(s, new_weight) == {Len(s)}

\* insertion after every entry that is not lighter
SearchPositionsAfterEqual(s, new_weight) ==
    {Cardinality({i \in 1..Len(s) : SearchCmp(new_weight, s[i]) # "Greater"})}

\* slice::binary_search_by on a list ordered by SearchCmp: Ok(i) for any one i
\* that compares Equal, else Err(i) with i the insertion point; the zero-based
\* i is the position handed to insert in both cases
SearchPositions(s, new_weight) ==
    LET eq == {i \in 1..Len(s) : SearchCmp(new_weight, s[i]) = "Equal"}
    IN  IF eq # {}
        THEN {i - 1 : i \in eq}
        ELSE {Cardinality({i \in 1..Len(s) : SearchCmp(new_weight, s[i]) = "Less"})}

LeafEntries(s) == [i \in 1..Len(s) |-> [tree |-> new_leaf(s[i].sym), weight |-> s[i].weight]]

\* the same entries with the weight in the leaf: the shape of the tree with
\* each leaf's own weight, kept beside the working list
WeightEntries(s) == [i \in 1..Len(s) |-> new_leaf(s[i].weight)]

(***************************************************************************)
(* Bit sink and bit source                                                 *)
(***************************************************************************)
ByteBits == 8

RECURSIVE Zeros(_)
Zeros(n) == IF n = 0 THEN <<>> ELSE Append(Zeros(n - 1), FALSE)

\* the bytes a dropped BitWriter leaves in the sink, as the bits a BitReader
\* hands out: the last byte is filled with zero bits
PadToByte(bits) == bits \o Zeros((ByteBits - (Len(bits) % ByteBits)) % ByteBits)

BitSeqs(n) == UNION {[1..k -> BOOLEAN] : k \in 0..n}

(***************************************************************************)
(* Tables handed to add_table                                              *)
(***************************************************************************)
Pair(sym, weight) == [sym |-> sym, weight |-> weight]

SkewedTable == <<Pair("a", 1), Pair("b", 2), Pair("d", 10)>>

FlatTable == <<Pair("a", 1), Pair("b", 1), Pair("c", 1), Pair("d", 1)>>

\* the HashMap of build_tree_from_table iterates in either order
TableAB == <<Pair("a", 2), Pair("b", 1)>>

TableBA == <<Pair("b", 1), Pair("a", 2)>>

SingleTable == <<Pair("a", 1)>>

\* the same symbol under two leaves
DuplicateTable == <<Pair("a", 1), Pair("b", 1), Pair("a", 2)>>

Tables == {SkewedTable, FlatTable, TableAB, TableBA, SingleTable, DuplicateTable,
           <<>>, <<Pair("b", 2)>>, <<Pair("c", 3)>>}

(***************************************************************************)
(* State                                                                   *)
(***************************************************************************)
VARIABLES
    pc,        \* position of the caller: builder, merging, built, empty, writing, reading
    pairs,     \* HuffBuilder.nodes as added
    ntables,   \* add_table() calls made
    nodes,     \* build(): the working list of (tree, weight)
    wnodes,    \* build(): per working entry, its tree with leaf weights
    tree,      \* Option<HuffTree> returned by build()
    wtree,     \* the returned tree with leaf weights
    encoding,  \* HuffWriter.encoding
    sink,      \* bits handed to write_bit, in order
    wlog,      \* write() calls made: value and outcome
    source,    \* bits the reader's source holds
    rpos,      \* bits taken from the source
    cursor,    \* read(): the cursor, None outside a call
    cstart,    \* read(): rpos when the running call began
    calls      \* read() calls returned: bits consumed and outcome

builderVars == <<pairs, ntables, nodes, wnodes, tree, wtree>>
writerVars == <<encoding, sink, wlog>>
readerVars == <<source, rpos, cursor, cstart, calls>>
vars == <<pc, builderVars, writerVars, readerVars>>

\* HuffBuilder::new()
Init ==
    /\ pc = "builder"
    /\ pairs = <<>>
    /\ ntables = 0
    /\ nodes = <<>>
    /\ wnodes = <<>>
    /\ tree = None
    /\ wtree = None
    /\ encoding = EmptyMap
    /\ sink = <<>>
    /\ wlog = <<>>
    /\ source = <<>>
    /\ rpos = 0
    /\ cursor = None
    /\ cstart = 0
    /\ calls = <<>>

add(sym, weight) ==
    /\ pc = "builder"
    /\ Len(pairs) < MaxPairs
    /\ pairs' = Append(pairs, Pair(sym, weight))
    /\ UNCHANGED <<pc, ntables, nodes, wnodes, tree, wtree, writerVars, readerVars>>

add_table(table) ==
    /\ pc = "builder"
    /\ ntables < MaxTables
    /\ pairs' = pairs \o table
    /\ ntables' = ntables + 1
    /\ UNCHANGED <<pc, nodes, wnodes, tree, wtree, writerVars, readerVars>>

\* build(), lines 75-86: sort and wrap into leaves
BuildSort ==
    /\ pc = "builder"
    /\ pc' = "merging"
    /\ nodes' = LeafEntries(sort_by(pairs))
    /\ wnodes' = WeightEntries(sort_by(pairs))
    /\ UNCHANGED <<pairs, ntables, tree, wtree, writerVars, readerVars>>

\* a merge step that makes the entry popped first the left child
BuildMergeSwapped ==
    /\ pc = "merging"
    /\ Len(nodes) > 1
    /\ LET n          == Len(nodes)
           right      == nodes[n]
           left       == nodes[n - 1]
           rest       == SubSeq(nodes, 1, n - 2)
           new_weight == left.weight + right.weight
           node       == new_node(right.tree, left.tree)
       IN  \E pos \in SearchPositions(rest, new_weight) :
               /\ nodes' = InsertAt(rest, pos, [tree |-> node, weight |-> new_weight])
               /\ wnodes' = InsertAt(SubSeq(wnodes, 1, n - 2), pos,
                                     new_node(wnodes[n], wnodes[n - 1]))
    /\ UNCHANGED <<pc, pairs, ntables, tree, wtree, writerVars, readerVars>>

\* build(), lines 89-110: one iteration of the merge loop
BuildMerge ==
    /\ pc = "merging"
    /\ Len(nodes) > 1
    /\ LET n          == Len(nodes)
           right      == nodes[n]
           left       == nodes[n - 1]
           rest       == SubSeq(nodes, 1, n - 2)
           new_weight == left.weight + right.weight
           node       == new_node(left.tree, right.tree)
       IN  \E pos \in SearchPositions(rest, new_weight) :
               /\ nodes' = InsertAt(rest, pos, [tree |-> node, weight |-> new_weight])
               /\ wnodes' = InsertAt(SubSeq(wnodes, 1, n - 2), pos,
                                     new_node(wnodes[n - 1], wnodes[n]))
    /\ UNCHANGED <<pc, pairs, ntables, tree, wtree, writerVars, readerVars>>

\* build(), lines 112-115: the last entry, if any, is the result
BuildReturn ==
    /\ pc = "merging"
    /\ Len(nodes) <= 1
    /\ IF Len(nodes) = 1
       THEN /\ tree' = nodes[1].tree
            /\ wtree' = wnodes[1]
            /\ pc' = "built"
       ELSE /\ tree' = None
            /\ wtree' = None
            /\ pc' = "empty"
    /\ nodes' = <<>>
    /\ wnodes' = <<>>
    /\ UNCHANGED <<pairs, ntables, writerVars, readerVars>>

\* HuffWriter::new: the tree's encoding and an empty sink
HuffWriterNew ==
    /\ pc = "built"
    /\ pc' = "writing"
    /\ encoding' = encoding_of(tree)
    /\ sink' = <<>>
    /\ wlog' = <<>>
    /\ UNCHANGED <<builderVars, readerVars>>

\* a write() that emits a bit for a value it does not know
write_emit_on_miss(value) ==
    /\ pc = "writing"
    /\ Len(wlog) < MaxWrites
    /\ IF value \in DOMAIN encoding
       THEN /\ sink' = sink \o encoding[value]
            /\ wlog' = Append(wlog, [value |-> value, res |-> "Ok"])
       ELSE /\ sink' = Append(sink, FALSE)
            /\ wlog' = Append(wlog, [value |-> value, res |-> "InvalidInput"])
    /\ UNCHANGED <<pc, encoding, builderVars, readerVars>>

\* HuffWriter::write
write(value) ==
    /\ pc = "writing"
    /\ Len(wlog) < MaxWrites
    /\ IF value \in DOMAIN encoding
       THEN /\ sink' = sink \o encoding[value]
            /\ wlog' = Append(wlog, [value |-> value, res |-> "Ok"])
       ELSE /\ sink' = sink
            /\ wlog' = Append(wlog, [value |-> value, res |-> "InvalidInput"])
    /\ UNCHANGED <<pc, encoding, builderVars, readerVars>>

\* HuffReader::new over a source the caller supplies
HuffReaderNew(input) ==
    /\ pc = "built"
    /\ pc' = "reading"
    /\ source' = input
    /\ rpos' = 0
    /\ cursor' = None
    /\ cstart' = 0
    /\ calls' = <<>>
    /\ UNCHANGED <<builderVars, writerVars>>

\* the writer is dropped and HuffReader::new is given the bytes it produced
HuffReaderOnOutput ==
    /\ pc = "writing"
    /\ pc' = "reading"
    /\ source' = PadToByte(sink)
    /\ rpos' = 0
    /\ cursor' = None
    /\ cstart' = 0
    /\ calls' = <<>>
    /\ UNCHANGED <<builderVars, writerVars>>

\* read(), line 176: the cursor starts at the root
ReadBegin ==
    /\ pc = "reading"
    /\ cursor = None
    /\ Len(calls) < MaxReads
    /\ cursor' = tree
    /\ cstart' = rpos
    /\ UNCHANGED <<pc, source, rpos, calls, builderVars, writerVars>>

\* read(), line 180: a leaf ends the call with its value
ReadLeaf ==
    /\ pc = "reading"
    /\ cursor # None
    /\ IsLeaf(cursor)
    /\ calls' = Append(calls, [start |-> cstart, end |-> rpos, ok |-> TRUE,
                               value |-> cursor.value])
    /\ cursor' = None
    /\ UNCHANGED <<pc, source, rpos, cstart, builderVars, writerVars>>

\* a read step that takes the left child on a true bit
ReadStepSwapped ==
    /\ pc = "reading"
    /\ cursor # None
    /\ IsNode(cursor)
    /\ rpos < Len(source)
    /\ cursor' = IF source[rpos + 1] THEN cursor.left ELSE cursor.right
    /\ rpos' = rpos + 1
    /\ UNCHANGED <<pc, source, cstart, calls, builderVars, writerVars>>

\* read(), lines 181-186: one bit moves the cursor to a child
ReadStep ==
    /\ pc = "reading"
    /\ cursor # None
    /\ IsNode(cursor)
    /\ rpos < Len(source)
    /\ cursor' = IF source[rpos + 1] THEN cursor.right ELSE cursor.left
    /\ rpos' = rpos + 1
    /\ UNCHANGED <<pc, source, cstart, calls, builderVars, writerVars>>

\* a read() that answers the exhausted source with the leftmost leaf below
RECURSIVE LeftmostValue(_)
LeftmostValue(t) == IF IsLeaf(t) THEN t.value ELSE LeftmostValue(t.left)

ReadEofAsZeroBits ==
    /\ pc = "reading"
    /\ cursor # None
    /\ IsNode(cursor)
    /\ rpos >= Len(source)
    /\ calls' = Append(calls, [start |-> cstart, end |-> rpos, ok |-> TRUE,
                               value |-> LeftmostValue(cursor)])
    /\ cursor' = None
    /\ UNCHANGED <<pc, source, rpos, cstart, builderVars, writerVars>>

\* read(), line 187: read_bit gave None at an internal node
ReadEof ==
    /\ pc = "reading"
    /\ cursor # None
    /\ IsNode(cursor)
    /\ rpos >= Len(source)
    /\ calls' = Append(calls, [start |-> cstart, end |-> rpos, ok |-> FALSE,
                               value |-> "UnexpectedEof"])
    /\ cursor' = None
    /\ UNCHANGED <<pc, source, rpos, cstart, builderVars, writerVars>>

NextBuilder ==
    \/ \E sym \in AddSymbols, weight \in AddWeights : add(sym, weight)
    \/ BuildSort
    \/ BuildMerge
    \/ BuildReturn
    \/ HuffWriterNew

SpecBuilder == Init /\ [][NextBuilder]_vars

Next ==
    \/ \E table \in Tables : add_table(table)
    \/ BuildSort
    \/ BuildMerge
    \/ BuildReturn
    \/ HuffWriterNew
    \/ \E value \in Symbols : write(value)
    \/ \E input \in BitSeqs(MaxBits) : HuffReaderNew(input)
    \/ HuffReaderOnOutput
    \/ ReadBegin
    \/ ReadLeaf
    \/ ReadStep
    \/ ReadEof

Spec == Init /\ [][Next]_vars

(***************************************************************************)
(* Vocabulary of the properties                                            *)
(***************************************************************************)
IsPrefix(p, q) == Len(p) <= Len(q) /\ SubSeq(q, 1, Len(p)) = p

\* root-to-leaf bit paths of a tree, FALSE for a step left
RECURSIVE LeafPaths(_)
LeafPaths(t) ==
    IF IsLeaf(t) THEN {<<>>}
    ELSE {<<FALSE>> \o p : p \in LeafPaths(t.left)}
         \cup {<<TRUE>> \o p : p \in LeafPaths(t.right)}

\* the leaves of a tree from left to right
RECURSIVE LeafSeq(_)
LeafSeq(t) == IF IsLeaf(t) THEN <<t.value>> ELSE LeafSeq(t.left) \o LeafSeq(t.right)

LeafValues(t) == {LeafSeq(t)[i] : i \in 1..Len(LeafSeq(t))}

\* the subtree a bit path leads to; None when the path runs past a leaf
RECURSIVE Follow(_, _)
Follow(t, bits) ==
    IF bits = <<>> THEN t
    ELSE IF IsLeaf(t) THEN None
    ELSE Follow(IF Head(bits) THEN t.right ELSE t.left, Tail(bits))

\* p comes no later than q in a left-before-right traversal of the leaves
RECURSIVE PathLeq(_, _)
PathLeq(p, q) ==
    IF p = <<>> \/ q = <<>> THEN TRUE
    ELSE IF Head(p) = Head(q) THEN PathLeq(Tail(p), Tail(q))
    ELSE Head(q)

RECURSIVE SameShape(_, _)
SameShape(t, u) ==
    IF IsLeaf(t) \/ IsLeaf(u) THEN IsLeaf(t) /\ IsLeaf(u)
    ELSE SameShape(t.left, u.left) /\ SameShape(t.right, u.right)

Count(s, x) == Cardinality({i \in 1..Len(s) : s[i] = x})

\* sum over the leaves of weight times depth, on a tree of leaf weights
RECURSIVE WPL(_, _)
WPL(wt, depth) ==
    IF IsLeaf(wt) THEN wt.value * depth
    ELSE WPL(wt.left, depth + 1) + WPL(wt.right, depth + 1)

RECURSIVE SumOver(_, _)
SumOver(ws, S) ==
    IF S = {} THEN 0
    ELSE LET i == CHOOSE j \in S : TRUE IN ws[i] + SumOver(ws, S \ {i})

SetMin(S) == CHOOSE x \in S : \A y \in S : x <= y

\* least weighted path length of any binary tree whose internal nodes have two
\* children and whose leaves are the entries S of ws: such a tree splits S into
\* the leaves of its left and of its right child
RECURSIVE MinCost(_, _)
MinCost(ws, S) ==
    IF Cardinality(S) <= 1 THEN 0
    ELSE LET m == CHOOSE j \in S : TRUE
         IN  SumOver(ws, S)
             + SetMin({MinCost(ws, A \cup {m}) + MinCost(ws, S \ (A \cup {m})) :
                       A \in (SUBSET (S \ {m})) \ {S \ {m}}})

\* s without the entries at the places I, the others in order
Without(s, I) ==
    LET kept == SelectSeq([k \in 1..Len(s) |-> <<k, s[k]>>], LAMBDA e : e[1] \notin I)
    IN  [k \in 1..Len(kept) |-> kept[k][2]]

IsSortedDesc(s) == \A i \in 1..(Len(s) - 1) : s[i].weight >= s[i + 1].weight

PairWeights == [i \in 1..Len(pairs) |-> pairs[i].weight]

\* the returned tree's leaves, left to right, each with its weight
TreePairs ==
    [i \in 1..Len(LeafSeq(tree)) |-> Pair(LeafSeq(tree)[i], LeafSeq(wtree)[i])]

\* the values of the successful write() calls, in order
Written ==
    LET ok == SelectSeq(wlog, LAMBDA e : e.res = "Ok")
    IN  [i \in 1..Len(ok) |-> ok[i].value]

RECURSIVE CodesOf(_, _)
CodesOf(map, vals) ==
    IF vals = <<>> THEN <<>> ELSE map[Head(vals)] \o CodesOf(map, Tail(vals))

ConsumedBy(c) == SubSeq(source, c.start + 1, c.end)

(***************************************************************************)
(* Properties                                                              *)
(***************************************************************************)
\* C1: round trip. When a reader over the bytes a writer produced has returned
\* from as many read() calls as there were symbols written, or fewer, every
\* call succeeded and returned the symbol written at the same place.
C1_RoundTrip ==
    (pc = "reading" /\ source = PadToByte(sink)) =>
        \A i \in 1..Len(calls) :
            i <= Len(Written) => calls[i].ok /\ calls[i].value = Written[i]

C1_Witness ==
    /\ pc = "reading"
    /\ source = PadToByte(sink)
    /\ Len(Written) = MaxWrites
    /\ Len(calls) = Len(Written)
    /\ Written[1] # Written[2]
    /\ Len(encoding[Written[1]]) # Len(encoding[Written[2]])

\* C2: optimality. The tree build() returns has the added pairs as its leaves
\* and the least weighted path length of all binary trees over those leaves.
C2_Optimal ==
    pc = "built" =>
        /\ SameShape(tree, wtree)
        /\ \A i \in 1..Len(pairs) : Count(TreePairs, pairs[i]) = Count(pairs, pairs[i])
        /\ Len(TreePairs) = Len(pairs)
        /\ WPL(wtree, 0) = MinCost(PairWeights, 1..Len(pairs))

C2_Witness ==
    /\ pc = "built"
    /\ Len(pairs) = MaxPairs
    /\ IsNode(tree)
    /\ IsLeaf(tree.left) \/ IsLeaf(tree.right)
    /\ \E i, j \in 1..Len(pairs) : pairs[i].weight < pairs[j].weight

\* C3: prefix-free. In a tree built from two or more pairs no leaf's path is a
\* prefix of another leaf's path, and no code of the encoding map is a prefix of
\* the code of a different symbol.
C3_PrefixFree ==
    (pc = "writing" /\ Len(pairs) >= 2) =>
        /\ \A p, q \in LeafPaths(tree) : p # q => ~IsPrefix(p, q)
        /\ \A u, v \in DOMAIN encoding : u # v => ~IsPrefix(encoding[u], encoding[v])

C3_Witness ==
    /\ pc = "writing"
    /\ Len(pairs) >= 3
    /\ \E u, v \in DOMAIN encoding : Len(encoding[u]) < Len(encoding[v])

\* C4: unencodable symbol. A write() fails with InvalidInput exactly when its
\* value is not a leaf value, the map stays the tree's encoding, and the sink
\* holds the codes of the successful calls alone, in order.
C4_FailedWriteLeavesNoTrace ==
    pc = "writing" =>
        /\ encoding = encoding_of(tree)
        /\ \A i \in 1..Len(wlog) :
              /\ wlog[i].res \in {"Ok", "InvalidInput"}
              /\ wlog[i].res = "InvalidInput" <=> wlog[i].value \notin LeafValues(tree)
        /\ sink = CodesOf(encoding_of(tree), Written)

C4_Witness ==
    /\ pc = "writing"
    /\ Len(wlog) = 2
    /\ wlog[1].res = "InvalidInput"
    /\ wlog[2].res = "Ok"
    /\ Len(sink) > 0

\* C5: unexpected end of input. A read() at an internal node with the source
\* exhausted returns UnexpectedEof and no symbol, and every read() call begins
\* with the cursor at the root, whatever the call before it did.
EofPending ==
    pc = "reading" /\ cursor # None /\ IsNode(cursor) /\ rpos >= Len(source)

C5_EofFailsAndRestarts ==
    [][/\ EofPending =>
            /\ calls' = Append(calls, [start |-> cstart, end |-> rpos, ok |-> FALSE,
                                       value |-> "UnexpectedEof"])
            /\ cursor' = None
            /\ rpos' = rpos
       /\ (pc = "reading" /\ cursor = None /\ cursor' # None) =>
            cursor' = tree /\ cstart' = rpos
       /\ (pc = "reading" /\ cursor # None) =>
            cursor = Follow(tree, SubSeq(source, cstart + 1, rpos))]_vars

C5_Witness ==
    /\ pc = "reading"
    /\ Len(calls) >= 1
    /\ ~calls[Len(calls)].ok
    /\ calls[Len(calls)].end > calls[Len(calls)].start
    /\ cursor = tree

\* C6: a successful read() returns the value of the leaf its consumed bits lead
\* to from the root and consumes as many bits as that leaf is deep, right after
\* the bits of the call before; on a single-leaf tree it consumes none.
C6_ReadFollowsPath ==
    pc = "reading" =>
        \A i \in 1..Len(calls) :
            /\ calls[i].start = (IF i = 1 THEN 0 ELSE calls[i - 1].end)
            /\ calls[i].ok =>
                  /\ ConsumedBy(calls[i]) \in LeafPaths(tree)
                  /\ Follow(tree, ConsumedBy(calls[i])) = new_leaf(calls[i].value)
                  /\ calls[i].end - calls[i].start = Len(ConsumedBy(calls[i]))
                  /\ IsLeaf(tree) => calls[i].end = calls[i].start

C6_Witness ==
    /\ pc = "reading"
    /\ Len(calls) >= 2
    /\ calls[1].ok /\ calls[2].ok
    /\ calls[2].end - calls[2].start >= 2
    /\ calls[1].end - calls[1].start = 1

\* C7 as stated: from ('a',1), ('b',2), ('d',10), 'd' is a child of the root,
\* 'b' and 'a' are under the other child, and 'b' is less deep than 'a'.
C7_SkewedAsStated ==
    (pc = "writing" /\ pairs = SkewedTable) =>
        /\ IsNode(tree)
        /\ new_leaf("d") \in {tree.left, tree.right}
        /\ \E o \in {tree.left, tree.right} :
              /\ o # new_leaf("d")
              /\ {"a", "b"} \subseteq LeafValues(o)
        /\ Len(encoding["b"]) < Len(encoding["a"])

\* C7 amended: from ('a',1), ('b',2), ('d',10), 'd' is the left child of the
\* root and the right child is the node whose left leaf is 'b' and whose right
\* leaf is 'a': 'b' and 'a' are equally deep.
C7_Skewed ==
    (pc = "writing" /\ pairs = SkewedTable) =>
        /\ tree = new_node(new_leaf("d"), new_node(new_leaf("b"), new_leaf("a")))
        /\ Len(encoding["b"]) = Len(encoding["a"])
        /\ Len(encoding["d"]) < Len(encoding["b"])

C7_Witness == pc = "writing" /\ pairs = SkewedTable /\ IsNode(tree)

\* C8: from ('a',1), ('b',1), ('c',1), ('d',1) the tree is
\* Node(Node(a,b), Node(c,d)) and the codes are a=00, b=01, c=10, d=11.
C8_Flat ==
    (pc \in {"built", "writing"} /\ pairs = FlatTable) =>
        /\ tree = new_node(new_node(new_leaf("a"), new_leaf("b")),
                           new_node(new_leaf("c"), new_leaf("d")))
        /\ pc = "writing" =>
              /\ DOMAIN encoding = {"a", "b", "c", "d"}
              /\ encoding["a"] = <<FALSE, FALSE>>
              /\ encoding["b"] = <<FALSE, TRUE>>
              /\ encoding["c"] = <<TRUE, FALSE>>
              /\ encoding["d"] = <<TRUE, TRUE>>

C8_Witness == pc = "writing" /\ pairs = FlatTable /\ Cardinality(DOMAIN encoding) = 4

\* C9 as stated: the map has as many entries as the tree has leaves and maps
\* each leaf's symbol to that leaf's path.
C9_OneEntryPerLeaf ==
    pc = "writing" =>
        /\ Cardinality(DOMAIN encoding) = Len(LeafSeq(tree))
        /\ \A p \in LeafPaths(tree) : encoding[Follow(tree, p).value] = p

\* C9 amended: the map has one entry per distinct leaf symbol, and maps a symbol
\* to the path of the last leaf holding it in left-before-right order; where
\* the leaf symbols are pairwise distinct that is one entry per leaf.
C9_OneEntryPerSymbol ==
    pc = "writing" =>
        /\ DOMAIN encoding = LeafValues(tree)
        /\ \A v \in DOMAIN encoding :
              /\ encoding[v] \in LeafPaths(tree)
              /\ Follow(tree, encoding[v]) = new_leaf(v)
              /\ \A p \in LeafPaths(tree) :
                    Follow(tree, p) = new_leaf(v) => PathLeq(p, encoding[v])
        /\ Cardinality(LeafValues(tree)) = Len(LeafSeq(tree)) =>
              /\ Cardinality(DOMAIN encoding) = Len(LeafSeq(tree))
              /\ \A p \in LeafPaths(tree) : encoding[Follow(tree, p).value] = p

C9_Witness ==
    /\ pc = "writing"
    /\ Cardinality(DOMAIN encoding) < Len(LeafSeq(tree))
    /\ Cardinality(DOMAIN encoding) >= 2

\* C10: greedy step. At the start of every iteration the working list is in
\* descending order of weight; the iteration removes two entries that no
\* remaining entry is lighter than, the second removed no lighter than the
\* first, and puts their node, second removed on the left, with the sum of
\* their weights where the list stays in descending order.
MergedTwoLowest ==
    LET n == Len(nodes)
    IN  \E i, j \in 1..n :
            /\ i # j
            /\ \A k \in (1..n) \ {i, j} :
                  nodes[k].weight >= nodes[i].weight /\ nodes[k].weight >= nodes[j].weight
            /\ nodes[i].weight >= nodes[j].weight
            /\ \E p \in 1..Len(nodes') :
                  /\ nodes'[p] = [tree   |-> new_node(nodes[i].tree, nodes[j].tree),
                                  weight |-> nodes[i].weight + nodes[j].weight]
                  /\ SubSeq(nodes', 1, p - 1) \o SubSeq(nodes', p + 1, Len(nodes'))
                        = Without(nodes, {i, j})

C10_GreedyStep ==
    [][/\ pc = "merging" => IsSortedDesc(nodes)
       /\ (pc = "merging" /\ Len(nodes) > 1) =>
            /\ pc' = "merging"
            /\ Len(nodes') = Len(nodes) - 1
            /\ MergedTwoLowest
            /\ IsSortedDesc(nodes')]_vars

C10_Witness ==
    /\ pc = "merging"
    /\ Len(nodes) >= 3
    /\ IsNode(nodes[2].tree)
    /\ IsLeaf(nodes[1].tree)
    /\ IsLeaf(nodes[3].tree)

=============================================================================
